---- MODULE Spec2Model ----
(***************************************************************************)
(* Verification model of regalloc2:                                        *)
(*   - src/set.rs      IntSet, driven as by fuzz/fuzz_targets/set.rs        *)
(*   - src/cfg.rs      CFGInfo::new                                         *)
(*   - src/ion/mod.rs  run / Env::new / Env::init / Env::run                *)
(***************************************************************************)
EXTENDS Integers, Sequences, FiniteSets, TLC

VARIABLES
    \* ---- fuzz/fuzz_targets/set.rs: the two sets, their oracles ----
    left, right, left_oracle, right_oracle,
    x, y,            \* the two booleans compared by assert_eq!(x, y)
    last_action,     \* the Action handled by the last loop iteration
    pre,             \* left and right as they were before that iteration
    repeated,        \* that iteration handled the same Action as the one before it
    nactions,        \* how many of testcase.actions were handled
    \* ---- src/ion/mod.rs run and src/cfg.rs CFGInfo::new ----
    func,            \* the Function given to run
    pc,              \* the statement run (or CFGInfo::new, Env::init, Env::run) is at
    block,           \* the loop variable of the current loop of CFGInfo::new
    cfg,             \* the locals of CFGInfo::new, then the CFGInfo built from them
    cfginfo_result,  \* what CFGInfo::new returned
    result,          \* what run returned
    env_built,       \* Env::new has been called
    trace,           \* the stages of Env::init and Env::run executed so far
    \* ---- process_bundles: the priority queue and backtracking loop ----
    use_weight,      \* per program point, the weight of the use at that point
    bundles,         \* every bundle created so far, by bundle index
    allocation_queue,\* the queued bundle indices, in insertion order
    commitments,     \* per preg, the bundles committed to it
    spilled_bundles, \* the bundles marked spilled, in order
    done_steps,      \* which steps the loop has taken so far
    \* ---- resolve_inserted_moves: one group of moves at a program point ----
    group,           \* the moves <<src, dst>> of the group, to happen in parallel
    pending,         \* the moves not emitted yet
    emitted,         \* the moves appended to edits for the group, in order
    extra_spillslot, \* per register class, the scratch spillslot (0 for None)
    num_spillslots   \* how many spillslots have been allocated

setvars ==
    <<left, right, left_oracle, right_oracle, x, y, last_action, pre, repeated, nactions>>

runvars == <<func, pc, block, cfg, cfginfo_result, result, env_built, trace>>

allocvars ==
    <<use_weight, bundles, allocation_queue, commitments, spilled_bundles, done_steps>>

movevars == <<group, pending, emitted, extra_spillslot, num_spillslots>>

vars == <<setvars, runvars, allocvars, movevars>>

-----------------------------------------------------------------------------
(* Bounds and program constants                                            *)

\* Number of actions of testcase.actions explored after the replayed prefix.
MaxActions == 3
\* Length of the replayed prefixes of adds (just below SORT_THRESHOLD).
PrefixLen == 15

SPARSE_THRESHOLD == 512
SORT_THRESHOLD == 16

\* The u16 values the actions carry: two dense ones, two sparse ones.
Vals == {1, 2, 600, 601}

-----------------------------------------------------------------------------
(* Helpers over sequences                                                  *)

Range(s) == {s[i] : i \in 1..Len(s)}

NoDup(s) == \A i, j \in 1..Len(s) : i # j => s[i] # s[j]

StrictlyIncreasing(s) == \A i \in 1..(Len(s) - 1) : s[i] < s[i + 1]

-----------------------------------------------------------------------------
(* crate::bitvec::BitVec, as used by IntSet: a bit per present integer.    *)

BitVecNew == {}

BitVecSet(bv, idx, val) == IF val THEN bv \cup {idx} ELSE bv \ {idx}

BitVecGet(bv, idx) == idx \in bv

\* bv.or(other): the union, and whether any bit was newly set
BitVecOr(bv, other) == [bv |-> bv \cup other, changed |-> (other \ bv) # {}]

\* bv.iter(): the set bits in increasing order
RECURSIVE BitVecIter(_)
BitVecIter(bv) ==
    IF bv = {} THEN <<>>
    ELSE LET m == CHOOSE e \in bv : \A o \in bv : e <= o
         IN <<m>> \o BitVecIter(bv \ {m})

-----------------------------------------------------------------------------
(* IntSet                                                                  *)

Empty == [bv |-> {}, mode |-> "Empty", list |-> <<>>]
Small(bv) == [bv |-> bv, mode |-> "Small", list |-> <<>>]
Unsorted(list) == [bv |-> {}, mode |-> "Unsorted", list |-> list]
Sorted(list) == [bv |-> {}, mode |-> "Sorted", list |-> list]

\* u32::try_from(val).expect("out of range"): val when val < 2^32 (written
\* on 16-bit halves), -1 for the panic
u32_try_from(val) == IF val \div 65536 < 65536 THEN val ELSE -1

\* list.sort(): insertion of the head into the sorted tail
RECURSIVE sort_insert(_, _)
sort_insert(e, s) ==
    IF s = <<>> THEN <<e>>
    ELSE IF e <= Head(s) THEN <<e>> \o s
    ELSE <<Head(s)>> \o sort_insert(e, Tail(s))

RECURSIVE slice_sort(_)
slice_sort(list) ==
    IF list = <<>> THEN <<>> ELSE sort_insert(Head(list), slice_sort(Tail(list)))

\* slice.binary_search(&val): the index found (1-based), 0 for Err
RECURSIVE binary_search_in(_, _, _, _)
binary_search_in(slice, val, lo, hi) ==
    IF lo >= hi THEN 0
    ELSE LET mid == (lo + hi) \div 2
         IN IF slice[mid] = val THEN mid
            ELSE IF slice[mid] < val THEN binary_search_in(slice, val, mid + 1, hi)
            ELSE binary_search_in(slice, val, lo, mid)

binary_search(slice, val) == binary_search_in(slice, val, 1, Len(slice) + 1)

\* remove_dups: the loop over i with (out, last); out is the kept prefix
RECURSIVE remove_dups_loop(_, _, _, _)
remove_dups_loop(list, i, out, last) ==
    IF i > Len(list) THEN out
    ELSE IF <<list[i]>> # last
         THEN remove_dups_loop(list, i + 1, Append(out, list[i]), <<list[i]>>)
         ELSE remove_dups_loop(list, i + 1, out, <<list[i]>>)

\* remove_dups that drops nothing
remove_dups_identity(list) == list

remove_dups(list) == remove_dups_loop(list, 1, <<>>, <<>>)

new == Empty

clear(self) == Empty

is_empty(self) ==
    CASE self.mode = "Empty" -> TRUE
      [] self.mode = "Small" -> BitVecIter(self.bv) = <<>>
      [] OTHER -> self.list = <<>>

\* add whose promotion of a Small set starts the list from the new value only
add_promote_drops(self, val) ==
    LET u32_val == u32_try_from(val) IN
    CASE self.mode = "Empty" ->
            IF val >= SPARSE_THRESHOLD THEN Sorted(<<u32_val>>)
            ELSE Small(BitVecSet(BitVecNew, val, TRUE))
      [] self.mode = "Small" ->
            IF val >= SPARSE_THRESHOLD
            THEN Unsorted(<<u32_val>>)
            ELSE Small(BitVecSet(self.bv, val, TRUE))
      [] self.mode = "Unsorted" -> Unsorted(Append(self.list, u32_val))
      [] self.mode = "Sorted" -> Unsorted(Append(self.list, u32_val))

\* add that leaves a Sorted list Sorted after the push
add_keep_sorted(self, val) ==
    LET u32_val == u32_try_from(val) IN
    CASE self.mode = "Empty" ->
            IF val >= SPARSE_THRESHOLD THEN Sorted(<<u32_val>>)
            ELSE Small(BitVecSet(BitVecNew, val, TRUE))
      [] self.mode = "Small" ->
            IF val >= SPARSE_THRESHOLD
            THEN Unsorted(Append(BitVecIter(self.bv), u32_val))
            ELSE Small(BitVecSet(self.bv, val, TRUE))
      [] self.mode = "Unsorted" -> Unsorted(Append(self.list, u32_val))
      [] self.mode = "Sorted" -> Sorted(Append(self.list, u32_val))

add(self, val) ==
    LET u32_val == u32_try_from(val) IN
    CASE self.mode = "Empty" ->
            IF val >= SPARSE_THRESHOLD THEN Sorted(<<u32_val>>)
            ELSE Small(BitVecSet(BitVecNew, val, TRUE))
      [] self.mode = "Small" ->
            IF val >= SPARSE_THRESHOLD
            THEN Unsorted(Append(BitVecIter(self.bv), u32_val))
            ELSE Small(BitVecSet(self.bv, val, TRUE))
      [] self.mode = "Unsorted" -> Unsorted(Append(self.list, u32_val))
      [] self.mode = "Sorted" -> Unsorted(Append(self.list, u32_val))

\* list.remove(idx)
vec_remove(list, idx) == SubSeq(list, 1, idx - 1) \o SubSeq(list, idx + 1, Len(list))

\* list.retain(|elem| *elem != u32_val)
RECURSIVE retain_ne(_, _)
retain_ne(list, u32_val) ==
    IF list = <<>> THEN <<>>
    ELSE IF Head(list) # u32_val THEN <<Head(list)>> \o retain_ne(Tail(list), u32_val)
    ELSE retain_ne(Tail(list), u32_val)

\* remove that resets the set to Empty when its list runs empty
remove_demotes(self, val) ==
    LET u32_val == u32_try_from(val) IN
    CASE self.mode = "Empty" -> Empty
      [] self.mode = "Small" -> Small(BitVecSet(self.bv, val, FALSE))
      [] self.mode = "Unsorted" ->
            IF retain_ne(self.list, u32_val) = <<>> THEN Empty
            ELSE Unsorted(retain_ne(self.list, u32_val))
      [] self.mode = "Sorted" ->
            LET idx == binary_search(self.list, u32_val)
            IN IF idx = 0 THEN Sorted(self.list)
               ELSE IF Len(self.list) = 1 THEN Empty
               ELSE Sorted(vec_remove(self.list, idx))

remove(self, val) ==
    LET u32_val == u32_try_from(val) IN
    CASE self.mode = "Empty" -> Empty
      [] self.mode = "Small" -> Small(BitVecSet(self.bv, val, FALSE))
      [] self.mode = "Unsorted" -> Unsorted(retain_ne(self.list, u32_val))
      [] self.mode = "Sorted" ->
            LET idx == binary_search(self.list, u32_val)
            IN IF idx # 0 THEN Sorted(vec_remove(self.list, idx)) ELSE Sorted(self.list)

\* sort that removes adjacent duplicates without ordering the list
sort_unordered(self) ==
    IF self.mode = "Unsorted" THEN Sorted(remove_dups(self.list)) ELSE self

sort(self) ==
    IF self.mode = "Unsorted" THEN Sorted(remove_dups(slice_sort(self.list))) ELSE self

\* contains that sorts only lists longer than SORT_THRESHOLD
contains_above_threshold(self, val) ==
    LET s1 == IF self.mode = "Unsorted" /\ Len(self.list) > SORT_THRESHOLD
              THEN sort(self) ELSE self
        u32_val == u32_try_from(val)
        ret == CASE s1.mode = "Empty" -> FALSE
                 [] s1.mode = "Small" -> BitVecGet(s1.bv, val)
                 [] s1.mode = "Unsorted" -> \E i \in 1..Len(s1.list) : s1.list[i] = u32_val
                 [] s1.mode = "Sorted" -> binary_search(s1.list, u32_val) # 0
    IN [self |-> s1, ret |-> ret]

\* contains(&mut self, val): the set it leaves and the boolean it returns
contains(self, val) ==
    LET s1 == IF self.mode = "Unsorted" /\ Len(self.list) >= SORT_THRESHOLD
              THEN sort(self) ELSE self
        u32_val == u32_try_from(val)
        ret == CASE s1.mode = "Empty" -> FALSE
                 [] s1.mode = "Small" -> BitVecGet(s1.bv, val)
                 [] s1.mode = "Unsorted" -> \E i \in 1..Len(s1.list) : s1.list[i] = u32_val
                 [] s1.mode = "Sorted" -> binary_search(s1.list, u32_val) # 0
    IN [self |-> s1, ret |-> ret]

\* for idx in bv.iter() { list.push(idx as u32) }
RECURSIVE push_all(_, _)
push_all(list, idxs) ==
    IF idxs = <<>> THEN list ELSE push_all(Append(list, Head(idxs)), Tail(idxs))

\* (Sorted(list), Small(bv)): push the bits the first orig_len entries lack
RECURSIVE push_missing(_, _, _, _)
push_missing(list, orig_len, idxs, changed) ==
    IF idxs = <<>> THEN [changed |-> changed, list |-> list]
    ELSE IF binary_search(SubSeq(list, 1, orig_len), Head(idxs)) = 0
         THEN push_missing(Append(list, Head(idxs)), orig_len, Tail(idxs), TRUE)
         ELSE push_missing(list, orig_len, Tail(idxs), changed)

\* two-finger merge that also sets changed when it takes an entry of l1
RECURSIVE merge_sorted_flags_self(_, _, _, _, _, _)
merge_sorted_flags_self(l1, l2, i, j, merged, changed) ==
    IF ~(i <= Len(l1) \/ j <= Len(l2)) THEN [changed |-> changed, list |-> merged]
    ELSE IF i <= Len(l1) /\ j <= Len(l2)
         THEN IF l1[i] = l2[j]
              THEN merge_sorted_flags_self(l1, l2, i + 1, j + 1, Append(merged, l1[i]), changed)
              ELSE IF l1[i] < l2[j]
              THEN merge_sorted_flags_self(l1, l2, i + 1, j, Append(merged, l1[i]), TRUE)
              ELSE merge_sorted_flags_self(l1, l2, i, j + 1, Append(merged, l2[j]), TRUE)
         ELSE IF i <= Len(l1)
         THEN merge_sorted_flags_self(l1, l2, i + 1, j, Append(merged, l1[i]), changed)
         ELSE merge_sorted_flags_self(l1, l2, i, j + 1, Append(merged, l2[j]), TRUE)

\* (Sorted(l1), Sorted(l2)): the two-finger merge loop
RECURSIVE merge_sorted(_, _, _, _, _, _)
merge_sorted(l1, l2, i, j, merged, changed) ==
    IF ~(i <= Len(l1) \/ j <= Len(l2)) THEN [changed |-> changed, list |-> merged]
    ELSE IF i <= Len(l1) /\ j <= Len(l2)
         THEN IF l1[i] = l2[j]
              THEN merge_sorted(l1, l2, i + 1, j + 1, Append(merged, l1[i]), changed)
              ELSE IF l1[i] < l2[j]
              THEN merge_sorted(l1, l2, i + 1, j, Append(merged, l1[i]), changed)
              ELSE merge_sorted(l1, l2, i, j + 1, Append(merged, l2[j]), TRUE)
         ELSE IF i <= Len(l1)
         THEN merge_sorted(l1, l2, i + 1, j, Append(merged, l1[i]), changed)
         ELSE merge_sorted(l1, l2, i, j + 1, Append(merged, l2[j]), TRUE)

\* merge_match with the (Small, Sorted) arm testing the wrong side
merge_match_wrong_side(s, o) ==
    CASE o.mode = "Empty" -> [changed |-> FALSE, self |-> s]
      [] o.mode # "Empty" /\ s.mode = "Empty" -> [changed |-> ~is_empty(o), self |-> o]
      [] s.mode = "Small" /\ o.mode = "Small" ->
            LET r == BitVecOr(s.bv, o.bv) IN [changed |-> r.changed, self |-> Small(r.bv)]
      [] s.mode = "Small" /\ o.mode = "Sorted" ->
            [changed |-> \E e \in s.bv : binary_search(o.list, e) = 0,
             self |-> Unsorted(push_all(o.list, BitVecIter(s.bv)))]
      [] s.mode = "Sorted" /\ o.mode = "Small" ->
            LET r == push_missing(s.list, Len(s.list), BitVecIter(o.bv), FALSE)
            IN [changed |-> r.changed, self |-> Unsorted(r.list)]
      [] s.mode = "Sorted" /\ o.mode = "Sorted" ->
            LET r == merge_sorted(s.list, o.list, 1, 1, <<>>, FALSE)
            IN [changed |-> r.changed, self |-> Sorted(r.list)]

\* the match of merge, on sorted self and other
merge_match(s, o) ==
    CASE o.mode = "Empty" -> [changed |-> FALSE, self |-> s]
      [] o.mode # "Empty" /\ s.mode = "Empty" -> [changed |-> ~is_empty(o), self |-> o]
      [] s.mode = "Small" /\ o.mode = "Small" ->
            LET r == BitVecOr(s.bv, o.bv) IN [changed |-> r.changed, self |-> Small(r.bv)]
      [] s.mode = "Small" /\ o.mode = "Sorted" ->
            [changed |-> \E k \in 1..Len(o.list) : ~BitVecGet(s.bv, o.list[k]),
             self |-> Unsorted(push_all(o.list, BitVecIter(s.bv)))]
      [] s.mode = "Sorted" /\ o.mode = "Small" ->
            LET r == push_missing(s.list, Len(s.list), BitVecIter(o.bv), FALSE)
            IN [changed |-> r.changed, self |-> Unsorted(r.list)]
      [] s.mode = "Sorted" /\ o.mode = "Sorted" ->
            LET r == merge_sorted(s.list, o.list, 1, 1, <<>>, FALSE)
            IN [changed |-> r.changed, self |-> Sorted(r.list)]

\* merge that moves other's contents out instead of cloning them
merge_takes_other(self, other) ==
    LET s == sort(self)
        o == sort(other)
        r == merge_match(s, o)
    IN [other |-> Empty, changed |-> r.changed, self |-> r.self]

\* merge(&mut self, other: &mut Self) -> bool
merge(self, other) ==
    LET s == sort(self)
        o == sort(other)
        r == merge_match(s, o)
    IN [other |-> o, changed |-> r.changed, self |-> r.self]

\* iter(): the sequence of values SetIter::next yields until None
iter(self) ==
    CASE self.mode = "Empty" -> <<>>
      [] self.mode = "Small" -> BitVecIter(self.bv)
      [] OTHER -> self.list

-----------------------------------------------------------------------------
(* fuzz_target: one iteration of `for action in &testcase.actions`         *)

Action(op, val) == [val |-> val, op |-> op]

NoAction == Action("none", 0)

FuzzState(l, r, lo, ro, xx, yy) ==
    [left |-> l, right |-> r, left_oracle |-> lo, right_oracle |-> ro, x |-> xx, y |-> yy]

fuzz_step(st, a) ==
    CASE a.op = "AddLeft" ->
            FuzzState(add(st.left, a.val), st.right,
                      st.left_oracle \cup {a.val}, st.right_oracle, FALSE, FALSE)
      [] a.op = "AddRight" ->
            FuzzState(st.left, add(st.right, a.val),
                      st.left_oracle, st.right_oracle \cup {a.val}, FALSE, FALSE)
      [] a.op = "RemoveLeft" ->
            LET c == contains(st.left, a.val)
            IN FuzzState(remove(c.self, a.val), st.right,
                         st.left_oracle \ {a.val}, st.right_oracle,
                         a.val \in st.left_oracle, c.ret)
      [] a.op = "RemoveRight" ->
            LET c == contains(st.right, a.val)
            IN FuzzState(st.left, remove(c.self, a.val),
                         st.left_oracle, st.right_oracle \ {a.val},
                         a.val \in st.right_oracle, c.ret)
      [] a.op = "LeftContains" ->
            LET c == contains(st.left, a.val)
            IN FuzzState(c.self, st.right, st.left_oracle, st.right_oracle,
                         a.val \in st.left_oracle, c.ret)
      [] a.op = "RightContains" ->
            LET c == contains(st.right, a.val)
            IN FuzzState(st.left, c.self, st.left_oracle, st.right_oracle,
                         a.val \in st.right_oracle, c.ret)
      [] a.op = "ClearLeft" ->
            FuzzState(clear(st.left), st.right, {}, st.right_oracle, FALSE, FALSE)
      [] a.op = "ClearRight" ->
            FuzzState(st.left, clear(st.right), st.left_oracle, {}, FALSE, FALSE)
      [] a.op = "MergeLeftToRight" ->
            LET m == merge(st.right, st.left)
                after == st.right_oracle \cup st.left_oracle
            IN FuzzState(m.other, m.self, st.left_oracle, after,
                         after # st.right_oracle, m.changed)
      [] a.op = "MergeRightToLeft" ->
            LET m == merge(st.left, st.right)
                after == st.left_oracle \cup st.right_oracle
            IN FuzzState(m.self, m.other, after, st.right_oracle,
                         after # st.left_oracle, m.changed)

RECURSIVE replay(_, _)
replay(st, actions) ==
    IF actions = <<>> THEN st
    ELSE LET next == fuzz_step(st, Head(actions))
         IN IF next.x \in BOOLEAN THEN replay(next, Tail(actions)) ELSE next

\* left = IntSet::new(), right = IntSet::new(), both oracles HashSet::new()
FuzzStart == FuzzState(new, new, {}, {}, FALSE, FALSE)

\* Prefixes of testcase.actions replayed from FuzzStart: nothing; adds that
\* take left through Sorted to an Unsorted list of sparse values; adds that
\* take right through Small to an Unsorted list holding dense values too.
SparseCycle == <<600, 601, 600>>
MixedCycle == <<2, 1, 600, 601, 2>>

LeftPrefix == [i \in 1..PrefixLen |-> Action("AddLeft", SparseCycle[((i - 1) % 3) + 1])]
RightPrefix == [i \in 1..PrefixLen |-> Action("AddRight", MixedCycle[((i - 1) % 5) + 1])]

Prefixes == {<<>>, LeftPrefix, RightPrefix, LeftPrefix \o RightPrefix}

Cur == FuzzState(left, right, left_oracle, right_oracle, x, y)

\* no allocation is in progress
RunIdle ==
    /\ func = <<>>
    /\ pc = "idle"
    /\ block = 0
    /\ cfg = <<>>
    /\ cfginfo_result = <<>>
    /\ result = <<>>
    /\ env_built = FALSE
    /\ trace = <<>>

\* process_bundles is not running
AllocIdle ==
    /\ use_weight = <<>>
    /\ bundles = <<>>
    /\ allocation_queue = <<>>
    /\ commitments = <<>>
    /\ spilled_bundles = <<>>
    /\ done_steps = {}

\* resolve_inserted_moves is not running
MovesIdle ==
    /\ group = {}
    /\ pending = {}
    /\ emitted = <<>>
    /\ extra_spillslot = <<>>
    /\ num_spillslots = 0

Step(a) ==
    /\ nactions < MaxActions
    /\ LET st == fuzz_step(Cur, a)
       IN /\ left' = st.left
          /\ right' = st.right
          /\ left_oracle' = st.left_oracle
          /\ right_oracle' = st.right_oracle
          /\ x' = st.x
          /\ y' = st.y
    /\ last_action' = a
    /\ pre' = [left |-> left, right |-> right]
    /\ repeated' = (a = last_action)
    /\ nactions' = nactions + 1
    /\ UNCHANGED <<runvars, allocvars, movevars>>

AddLeft == \E val \in Vals : Step(Action("AddLeft", val))
AddRight == \E val \in Vals : Step(Action("AddRight", val))
RemoveLeft == \E val \in Vals : Step(Action("RemoveLeft", val))
RemoveRight == \E val \in Vals : Step(Action("RemoveRight", val))
LeftContains == \E val \in Vals : Step(Action("LeftContains", val))
RightContains == \E val \in Vals : Step(Action("RightContains", val))
ClearLeft == Step(Action("ClearLeft", 0))
ClearRight == Step(Action("ClearRight", 0))
MergeLeftToRight == Step(Action("MergeLeftToRight", 0))
MergeRightToLeft == Step(Action("MergeRightToLeft", 0))

InitIntSet ==
    /\ RunIdle
    /\ AllocIdle
    /\ MovesIdle
    /\ \E p \in Prefixes :
         LET st == replay(FuzzStart, p)
         IN /\ left = st.left
            /\ right = st.right
            /\ left_oracle = st.left_oracle
            /\ right_oracle = st.right_oracle
            /\ x = FALSE
            /\ y = FALSE
            /\ last_action = NoAction
            /\ pre = [left |-> st.left, right |-> st.right]
            /\ repeated = FALSE
            /\ nactions = 0

NextIntSet ==
    \/ AddLeft
    \/ AddRight
    \/ RemoveLeft
    \/ RemoveRight
    \/ LeftContains
    \/ RightContains
    \/ ClearLeft
    \/ ClearRight
    \/ MergeLeftToRight
    \/ MergeRightToLeft

SpecIntSet == InitIntSet /\ [][NextIntSet]_vars

-----------------------------------------------------------------------------
(* The Function given to run: f.blocks() blocks, block 0 the entry, two    *)
(* instructions per block (a body instruction, then the branch).           *)

\* f.blocks()
NBlocks == 3
\* f.num_vregs()
NVregs == 2

Blocks == 0..(NBlocks - 1)
Insts == 0..(2 * NBlocks - 1)
VRegs == 0..(NVregs - 1)

\* Block::invalid() / Inst::invalid()
Block_invalid == -1
Inst_invalid == -1

ProgPoint_before(inst) == [inst |-> inst, pos |-> "Before"]
ProgPoint_after(inst) == [inst |-> inst, pos |-> "After"]

Operand(vreg, kind) == [vreg |-> vreg, kind |-> kind]

SetMax(S) == CHOOSE e \in S : \A o \in S : o <= e
SetMin(S) == CHOOSE e \in S : \A o \in S : e <= o

\* the elements of a set of blocks as a list, in increasing order
RECURSIVE Ascending(_)
Ascending(S) == IF S = {} THEN <<>> ELSE <<SetMin(S)>> \o Ascending(S \ {SetMin(S)})

\* How vreg 0 is defined (vreg 1 is always defined once, by instruction 0):
\*   "inst"        by instruction 0 only
\*   "param"       as the one block parameter of the last block
\*   "none"        nowhere
\*   "inst_param"  by instruction 0 and as that block parameter
\*   "two_insts"   by instruction 0 and by the last block's body instruction
Layouts == {"inst", "param", "none", "inst_param", "two_insts"}

LayoutParams(layout) ==
    [b \in Blocks |->
        IF b = NBlocks - 1 /\ layout \in {"param", "inst_param"} THEN <<0>> ELSE <<>>]

LayoutOperands(layout) ==
    [i \in Insts |->
        IF i = 0
        THEN IF layout \in {"inst", "inst_param", "two_insts"}
             THEN <<Operand(1, "Def"), Operand(0, "Def")>>
             ELSE <<Operand(1, "Def")>>
        ELSE IF i = 2 * (NBlocks - 1) /\ i # 0 /\ layout = "two_insts"
             THEN <<Operand(1, "Use"), Operand(0, "Def")>>
             ELSE IF i % 2 = 0 THEN <<Operand(1, "Use")>> ELSE <<>>]

\* the Function with successor sets succ, the blocks of args carrying a
\* branch argument before the blockparam args, and the given vreg layout
MakeFunction(succ, args, layout) ==
    [blocks |-> NBlocks,
     entry_block |-> 0,
     insts |-> 2 * NBlocks,
     num_vregs |-> NVregs,
     block_succs |-> [b \in Blocks |-> Ascending(succ[b])],
     block_preds |-> [b \in Blocks |-> Ascending({p \in Blocks : b \in succ[p]})],
     block_params |-> LayoutParams(layout),
     block_insns |-> [b \in Blocks |-> [last |-> 2 * b + 1, first |-> 2 * b]],
     inst_operands |-> LayoutOperands(layout),
     branch_blockparam_arg_offset |-> [b \in Blocks |-> IF b \in args THEN 1 ELSE 0]]

\* the same function with each block_preds list in the opposite order
ReversePreds(f) ==
    [f EXCEPT !.block_preds =
        [b \in DOMAIN @ |-> [i \in 1..Len(@[b]) |-> @[b][Len(@[b]) + 1 - i]]]]

\* a branch has at most two targets
SuccChoices == {S \in SUBSET Blocks : Cardinality(S) <= 2}

\* the blocks reachable from the blocks of seen along succ
RECURSIVE ReachableFrom(_, _)
ReachableFrom(succ, seen) ==
    LET more == seen \cup UNION {succ[b] : b \in seen}
    IN IF more = seen THEN seen ELSE ReachableFrom(succ, more)

\* The inputs of run: every graph in which each block is reachable from the
\* entry block, with every choice of argument-carrying branches (vreg 0
\* defined once, by an instruction) and with every vreg layout (no
\* argument-carrying branch).
IsInput(succ, args, layout) ==
    /\ ReachableFrom(succ, {0}) = Blocks
    /\ layout = "inst" \/ args = {}

-----------------------------------------------------------------------------
(* RegAllocError and the results of CFGInfo::new and run                   *)

NoResult == [args |-> <<>>, tag |-> "None"]
Ok == [args |-> <<>>, tag |-> "Ok"]
CritEdge(from, to) == [args |-> <<from, to>>, tag |-> "CritEdge"]
DisallowedBranchArg(inst) == [args |-> <<inst>>, tag |-> "DisallowedBranchArg"]
Err(tag) == [args |-> <<>>, tag |-> tag]

\* the errors compute_liveness and process_bundles can return (spec 6.5)
LivenessErrors == {"SSA", "BB", "Branch", "EntryLivein"}
ProcessErrors == {"TooManyLiveRegs"}

-----------------------------------------------------------------------------
(* CFGInfo::new                                                            *)

\* the vectors allocated before the loop over the blocks
cfg_locals(f) ==
    [insn_block |-> [i \in 0..(f.insts - 1) |-> Block_invalid],
     vreg_def_inst |-> [v \in 0..(f.num_vregs - 1) |-> Inst_invalid],
     vreg_def_blockparam |-> [v \in 0..(f.num_vregs - 1) |-> <<Block_invalid, 0>>],
     block_entry |-> [b \in 0..(f.blocks - 1) |-> ProgPoint_before(Inst_invalid)],
     block_exit |-> [b \in 0..(f.blocks - 1) |-> ProgPoint_before(Inst_invalid)],
     pred_pos |-> [b \in 0..(f.blocks - 1) |-> 0],
     backedge_in |-> [b \in 0..(f.blocks - 1) |-> 0],
     backedge_out |-> [b \in 0..(f.blocks - 1) |-> 0],
     approx_loop_depth |-> <<>>,
     backedge_stack |-> <<>>,
     cur_depth |-> 0,
     loop_transition_points |-> <<>>]

\* pred_count without the virtual predecessor of the entry block
pred_count_no_entry(f, b) == Len(f.block_preds[b])

\* f.block_preds(b).len() + if b == f.entry_block() { 1 } else { 0 }
pred_count(f, b) == Len(f.block_preds[b]) + (IF b = f.entry_block THEN 1 ELSE 0)

\* crit_preds with the successor count compared with 2
crit_preds_more_than_two(f, b) ==
    {i \in 1..Len(f.block_preds[b]) : Len(f.block_succs[f.block_preds[b][i]]) > 2}

\* the indices (1-based) of the preds of b that have more than one successor
crit_preds(f, b) ==
    {i \in 1..Len(f.block_preds[b]) : Len(f.block_succs[f.block_preds[b][i]]) > 1}

\* require_no_branch_args left at its initial false
require_no_branch_args_never(f, b) == FALSE

\* some successor of b has more than one predecessor
require_no_branch_args(f, b) ==
    \E k \in 1..Len(f.block_succs[b]) : pred_count(f, f.block_succs[b][k]) > 1

\* the instructions of block b that have a Def operand of vreg v
def_insts(f, b, v) ==
    {i \in (f.block_insns[b].first)..(f.block_insns[b].last) :
        \E k \in 1..Len(f.inst_operands[i]) :
            /\ f.inst_operands[i][k].kind = "Def"
            /\ f.inst_operands[i][k].vreg = v}

\* the positions (1-based) of vreg v among the params of block b
param_positions(f, b, v) ==
    {i \in 1..Len(f.block_params[b]) : f.block_params[b][i] = v}

\* the body of `for block in 0..f.blocks()` for one block: the error it
\* returns (Ok for none) and the locals it leaves. An early return drops
\* the locals, so the writes made before it are not kept in cfg.
cfg_block_body(f, c, b) ==
    LET insns == f.block_insns[b]
        plist == f.block_preds[b]
        succs == f.block_succs[b]
        preds == pred_count(f, b)
        crit == crit_preds(f, b)
    IN IF preds > 1 /\ crit # {}
       THEN [cfg |-> c, err |-> CritEdge(plist[SetMin(crit)], b)]
       ELSE IF require_no_branch_args(f, b) /\ f.branch_blockparam_arg_offset[b] > 0
       THEN [cfg |-> c, err |-> DisallowedBranchArg(insns.last)]
       ELSE [cfg |-> [c EXCEPT
                !.vreg_def_blockparam =
                    [v \in DOMAIN @ |->
                        IF param_positions(f, b, v) # {}
                        THEN <<b, SetMax(param_positions(f, b, v)) - 1>>
                        ELSE @[v]],
                !.insn_block =
                    [i \in DOMAIN @ |->
                        IF insns.first <= i /\ i <= insns.last THEN b ELSE @[i]],
                !.vreg_def_inst =
                    [v \in DOMAIN @ |->
                        IF def_insts(f, b, v) # {} THEN SetMax(def_insts(f, b, v)) ELSE @[v]],
                !.block_entry[b] = ProgPoint_before(insns.first),
                !.block_exit[b] = ProgPoint_after(insns.last),
                !.pred_pos =
                    [p \in DOMAIN @ |->
                        IF preds > 1 /\ \E i \in 1..Len(plist) : plist[i] = p
                        THEN (CHOOSE i \in 1..Len(plist) : plist[i] = p) - 1
                        ELSE @[p]],
                !.backedge_in =
                    [t \in DOMAIN @ |->
                        @[t] + Cardinality({k \in 1..Len(succs) : succs[k] = t /\ t <= b})],
                !.backedge_out[b] = @ + Cardinality({k \in 1..Len(succs) : succs[k] <= b})],
             err |-> Ok]

\* try_cfginfo that builds the Env before looking at the error
try_cfginfo_deferred(res) == [pc |-> "Env_new", result |-> res]

\* the `?` of `let cfginfo = CFGInfo::new(func)?;` in run: where run goes on
\* and what it has returned
try_cfginfo(res) ==
    IF res.tag = "Ok" THEN [pc |-> "Env_new", result |-> NoResult]
    ELSE [pc |-> "done", result |-> res]

\* run is entered and calls CFGInfo::new, which allocates its vectors
\* (postorder::calculate and domtree::calculate return no error and feed
\* only the postorder and domtree fields, which nothing below reads)
RunEnter ==
    /\ pc = "run"
    /\ cfg' = cfg_locals(func)
    /\ block' = 0
    /\ trace' = <<"CFGInfo_new">>
    /\ pc' = "cfg_blocks"
    /\ UNCHANGED <<func, cfginfo_result, result, env_built, setvars, allocvars, movevars>>

\* one iteration of the loop over the blocks, with its early returns
CFGBlock ==
    /\ pc = "cfg_blocks"
    /\ block < func.blocks
    /\ LET r == cfg_block_body(func, cfg, block)
       IN IF r.err.tag # "Ok"
          THEN /\ cfginfo_result' = r.err
               /\ pc' = try_cfginfo(r.err).pc
               /\ result' = try_cfginfo(r.err).result
               /\ UNCHANGED <<cfg, block>>
          ELSE /\ cfg' = r.cfg
               /\ block' = IF block + 1 < func.blocks THEN block + 1 ELSE 0
               /\ pc' = IF block + 1 < func.blocks THEN "cfg_blocks" ELSE "cfg_depth"
               /\ UNCHANGED <<cfginfo_result, result>>
    /\ UNCHANGED <<func, env_built, trace, setvars, allocvars, movevars>>

\* loop-depth pass, head of one iteration: push on a back-edge target and
\* record the depth
CFGDepthEnter ==
    /\ pc = "cfg_depth"
    /\ cfg' = IF cfg.backedge_in[block] > 0
              THEN [cfg EXCEPT
                        !.cur_depth = @ + 1,
                        !.backedge_stack = Append(@, cfg.backedge_in[block]),
                        !.approx_loop_depth = Append(@, cfg.cur_depth + 1)]
              ELSE [cfg EXCEPT !.approx_loop_depth = Append(@, cfg.cur_depth)]
    /\ pc' = "cfg_depth_while"
    /\ UNCHANGED <<func, block, cfginfo_result, result, env_built, trace, setvars, allocvars, movevars>>

\* an iteration of the inner while loop that pops an exhausted entry and
\* leaves cur_depth as it is
CFGDepthWhile_keeps_depth ==
    /\ pc = "cfg_depth_while"
    /\ Len(cfg.backedge_stack) > 0
    /\ cfg.backedge_out[block] > 0
    /\ LET top == Len(cfg.backedge_stack)
           c1 == [cfg EXCEPT !.backedge_out[block] = @ - 1,
                             !.backedge_stack[top] = @ - 1]
       IN cfg' = IF c1.backedge_stack[top] = 0
                 THEN [c1 EXCEPT !.backedge_stack = SubSeq(@, 1, top - 1)]
                 ELSE c1
    /\ UNCHANGED <<func, pc, block, cfginfo_result, result, env_built, trace, setvars, allocvars, movevars>>

\* one iteration of the inner while loop
CFGDepthWhile ==
    /\ pc = "cfg_depth_while"
    /\ Len(cfg.backedge_stack) > 0
    /\ cfg.backedge_out[block] > 0
    /\ LET top == Len(cfg.backedge_stack)
           c1 == [cfg EXCEPT !.backedge_out[block] = @ - 1,
                             !.backedge_stack[top] = @ - 1]
       IN cfg' = IF c1.backedge_stack[top] = 0
                 THEN [c1 EXCEPT !.cur_depth = @ - 1,
                                 !.backedge_stack = SubSeq(@, 1, top - 1)]
                 ELSE c1
    /\ UNCHANGED <<func, pc, block, cfginfo_result, result, env_built, trace, setvars, allocvars, movevars>>

\* the inner while loop ends: next block, or on to the transition points
CFGDepthNext ==
    /\ pc = "cfg_depth_while"
    /\ ~(Len(cfg.backedge_stack) > 0 /\ cfg.backedge_out[block] > 0)
    /\ block' = IF block + 1 < func.blocks THEN block + 1 ELSE 0
    /\ pc' = IF block + 1 < func.blocks THEN "cfg_depth" ELSE "cfg_transitions"
    /\ UNCHANGED <<func, cfg, cfginfo_result, result, env_built, trace, setvars, allocvars, movevars>>

\* the loop over approx_loop_depth recording every change of depth
RECURSIVE transition_points_any_change(_, _, _, _)
transition_points_any_change(c, b, last_depth, points) ==
    IF b >= Len(c.approx_loop_depth) THEN points
    ELSE LET depth == c.approx_loop_depth[b + 1]
         IN transition_points_any_change(c, b + 1, depth,
                IF depth # last_depth THEN Append(points, c.block_entry[b]) ELSE points)

\* the loop over approx_loop_depth that collects loop_transition_points
RECURSIVE transition_points(_, _, _, _)
transition_points(c, b, last_depth, points) ==
    IF b >= Len(c.approx_loop_depth) THEN points
    ELSE LET depth == c.approx_loop_depth[b + 1]
         IN transition_points(c, b + 1, depth,
                IF depth > last_depth THEN Append(points, c.block_entry[b]) ELSE points)

\* the transition points are collected and CFGInfo::new returns Ok(CFGInfo)
CFGTransitions ==
    /\ pc = "cfg_transitions"
    /\ cfg' = [cfg EXCEPT !.loop_transition_points =
                    transition_points(cfg, 0, cfg.approx_loop_depth[1], <<>>)]
    /\ cfginfo_result' = Ok
    /\ pc' = try_cfginfo(Ok).pc
    /\ result' = try_cfginfo(Ok).result
    /\ UNCHANGED <<func, block, env_built, trace, setvars, allocvars, movevars>>

\* pred_position that answers 0 for every block
pred_position_zero(c, b) == 0

\* CFGInfo::pred_position(block)
pred_position(c, b) == c.pred_pos[b]

-----------------------------------------------------------------------------
(* run, Env::new, Env::init, Env::run                                      *)

\* the statements of Env::init and of Env::run, in order
init_stages ==
    <<"create_pregs_and_vregs", "compute_liveness", "merge_vreg_bundles", "queue_bundles">>

\* run_stages with the spillslots allocated before the main loop
run_stages_spill_first ==
    <<"allocate_spillslots", "process_bundles", "try_allocating_regs_for_spilled_bundles",
      "apply_allocations_and_insert_moves", "resolve_inserted_moves", "compute_stackmaps">>

run_stages ==
    <<"process_bundles", "try_allocating_regs_for_spilled_bundles", "allocate_spillslots",
      "apply_allocations_and_insert_moves", "resolve_inserted_moves", "compute_stackmaps">>

\* env.init()?; env.run()?; Ok(Output { .. })
env_stages == init_stages \o run_stages \o <<"output">>

\* the statement after stage s
stage_after(s) ==
    env_stages[(CHOOSE i \in 1..Len(env_stages) : env_stages[i] = s) + 1]

\* let mut env = Env::new(func, mach_env, cfginfo, enable_annotations);
EnvNew ==
    /\ pc = "Env_new"
    /\ env_built' = TRUE
    /\ pc' = env_stages[1]
    /\ UNCHANGED <<func, block, cfg, cfginfo_result, result, trace, setvars, allocvars, movevars>>

\* a stage that cannot fail (dump_state and dump_results only log and are
\* left out)
Stage(s) ==
    /\ pc = s
    /\ trace' = Append(trace, s)
    /\ pc' = stage_after(s)
    /\ UNCHANGED <<func, block, cfg, cfginfo_result, result, env_built, setvars, allocvars, movevars>>

\* a stage whose error is recorded while the next stage is run all the same
FallibleStage_goes_on(s, errors) ==
    /\ pc = s
    /\ trace' = Append(trace, s)
    /\ \/ UNCHANGED result
       \/ \E e \in errors : result' = Err(e)
    /\ pc' = stage_after(s)
    /\ UNCHANGED <<func, block, cfg, cfginfo_result, env_built, setvars, allocvars, movevars>>

\* a stage called with `?`: it returns Ok(()) or one of its errors, which
\* Env::init / Env::run and then run return at once
FallibleStage(s, errors) ==
    /\ pc = s
    /\ trace' = Append(trace, s)
    /\ \/ /\ pc' = stage_after(s)
          /\ UNCHANGED result
       \/ /\ \E e \in errors : result' = Err(e)
          /\ pc' = "done"
    /\ UNCHANGED <<func, block, cfg, cfginfo_result, env_built, setvars, allocvars, movevars>>

CreatePregsAndVregs == Stage("create_pregs_and_vregs")
ComputeLiveness == FallibleStage("compute_liveness", LivenessErrors)
MergeVregBundles == Stage("merge_vreg_bundles")
QueueBundles == Stage("queue_bundles")
ProcessBundles == FallibleStage("process_bundles", ProcessErrors)
TryAllocatingRegsForSpilledBundles == Stage("try_allocating_regs_for_spilled_bundles")
AllocateSpillslots == Stage("allocate_spillslots")
ApplyAllocationsAndInsertMoves == Stage("apply_allocations_and_insert_moves")
ResolveInsertedMoves == Stage("resolve_inserted_moves")
ComputeStackmaps == Stage("compute_stackmaps")

\* Ok(Output { .. })
ReturnOutput ==
    /\ pc = "output"
    /\ result' = Ok
    /\ pc' = "done"
    /\ UNCHANGED <<func, block, cfg, cfginfo_result, env_built, trace, setvars, allocvars, movevars>>

\* no fuzz loop is running
IntSetIdle ==
    /\ left = Empty
    /\ right = Empty
    /\ left_oracle = {}
    /\ right_oracle = {}
    /\ x = FALSE
    /\ y = FALSE
    /\ last_action = NoAction
    /\ pre = [left |-> Empty, right |-> Empty]
    /\ repeated = FALSE
    /\ nactions = 0

InitRun ==
    /\ IntSetIdle
    /\ AllocIdle
    /\ MovesIdle
    /\ \E succ \in [Blocks -> SuccChoices] :
          /\ ReachableFrom(succ, {0}) = Blocks
          /\ \E args \in SUBSET Blocks, layout \in Layouts :
                /\ IsInput(succ, args, layout)
                /\ \/ func = MakeFunction(succ, args, layout)
                   \/ /\ args = {}
                      /\ layout = "inst"
                      /\ func = ReversePreds(MakeFunction(succ, args, layout))
    /\ pc = "run"
    /\ block = 0
    /\ cfg = <<>>
    /\ cfginfo_result = NoResult
    /\ result = NoResult
    /\ env_built = FALSE
    /\ trace = <<>>

NextRun ==
    \/ RunEnter
    \/ CFGBlock
    \/ CFGDepthEnter
    \/ CFGDepthWhile
    \/ CFGDepthNext
    \/ CFGTransitions
    \/ EnvNew
    \/ CreatePregsAndVregs
    \/ ComputeLiveness
    \/ MergeVregBundles
    \/ QueueBundles
    \/ ProcessBundles
    \/ TryAllocatingRegsForSpilledBundles
    \/ AllocateSpillslots
    \/ ApplyAllocationsAndInsertMoves
    \/ ResolveInsertedMoves
    \/ ComputeStackmaps
    \/ ReturnOutput

SpecRun == InitRun /\ [][NextRun]_vars

-----------------------------------------------------------------------------
(* process_bundles: the priority queue and backtracking loop.  A bundle is  *)
(* one live range [from, to) of program points with a use at every point;   *)
(* every bundle may take any preg (one register class, no fixed-register    *)
(* constraint, no hint).                                                    *)

\* Number of program points.
NPoints == 2
\* Number of bundles queued by queue_bundles.
NBundles == 2
\* Number of pregs.
NPregs == 1

Points == 0..(NPoints - 1)
PRegs == 1..NPregs

\* the weights a use can have: hint_weight * 2^loop_depth
UseWeights == {1, 2, 4}

\* the live ranges: half-open, non-empty
Ranges == {r \in (0..NPoints) \X (0..NPoints) : r[1] < r[2]}

\* the sum over the uses in [from, to) of their weights
RECURSIVE weight_sum(_, _)
weight_sum(from, to) ==
    IF from >= to THEN 0 ELSE use_weight[from] + weight_sum(from + 1, to)

\* a bundle of one range, with the sum of the weights of its uses
Bundle(vreg, from, to) ==
    [vreg |-> vreg, from |-> from, to |-> to, use_sum |-> weight_sum(from, to)]

range_len(b) == b.to - b.from

\* spill weight = use_sum / range_len; a's is less than b's
weight_less(a, b) == a.use_sum * range_len(b) < b.use_sum * range_len(a)

\* overlap test that misses a range starting where the other starts
overlaps_inside(a, b) == a.from < b.from /\ b.from < a.to

\* the two ranges share a program point
overlaps(a, b) == a.from < b.to /\ b.from < a.to

\* the bundles committed to preg p that conflict with bundle B
conflicts(B, p) == {c \in commitments[p] : overlaps(bundles[c], bundles[B])}

\* eviction allowed when no conflicting bundle is heavier
can_evict_not_heavier(B, p) ==
    \A c \in conflicts(B, p) : ~weight_less(bundles[B], bundles[c])

\* the maximum conflict weight on p is strictly less than weight(B)
can_evict(B, p) ==
    \A c \in conflicts(B, p) : weight_less(bundles[c], bundles[B])

\* the position in the queue of the bundle the max-heap pops: the heaviest,
\* and among equally heavy ones the first inserted
pop_index(q) ==
    CHOOSE i \in 1..Len(q) :
        \A j \in 1..Len(q) :
            /\ j < i => weight_less(bundles[q[j]], bundles[q[i]])
            /\ j > i => ~weight_less(bundles[q[i]], bundles[q[j]])

\* the queue without its entry at position i
after_pop(q, i) == SubSeq(q, 1, i - 1) \o SubSeq(q, i + 1, Len(q))

has_free_preg(B) == \E p \in PRegs : conflicts(B, p) = {}

has_evictable_preg(B) == \E p \in PRegs : can_evict(B, p)

\* step 4: some candidate has no conflict; B is committed there
Commit ==
    /\ allocation_queue # <<>>
    /\ LET i == pop_index(allocation_queue)
           B == allocation_queue[i]
       IN /\ \E p \in PRegs :
                /\ conflicts(B, p) = {}
                /\ commitments' = [commitments EXCEPT ![p] = @ \cup {B}]
          /\ allocation_queue' = after_pop(allocation_queue, i)
    /\ done_steps' = done_steps \cup {"commit"}
    /\ UNCHANGED <<use_weight, bundles, spilled_bundles, setvars, runvars, movevars>>

\* step 5: the conflicting bundles of a candidate are all lighter than B;
\* they are evicted and re-pushed, and B is committed
Evict ==
    /\ allocation_queue # <<>>
    /\ LET i == pop_index(allocation_queue)
           B == allocation_queue[i]
       IN /\ ~has_free_preg(B)
          /\ \E p \in PRegs :
                /\ can_evict(B, p)
                /\ commitments' = [commitments EXCEPT ![p] = (@ \ conflicts(B, p)) \cup {B}]
                /\ allocation_queue' =
                        after_pop(allocation_queue, i) \o Ascending(conflicts(B, p))
    /\ done_steps' = done_steps \cup {"evict"}
    /\ UNCHANGED <<use_weight, bundles, spilled_bundles, setvars, runvars, movevars>>

\* step 6, B not minimal: B is split in two at a point inside it and the
\* fragments are pushed
Split ==
    /\ allocation_queue # <<>>
    /\ LET i == pop_index(allocation_queue)
           B == allocation_queue[i]
       IN /\ ~has_free_preg(B)
          /\ ~has_evictable_preg(B)
          /\ range_len(bundles[B]) > 1
          /\ \E at \in (bundles[B].from + 1)..(bundles[B].to - 1) :
                bundles' = bundles \o
                    <<Bundle(bundles[B].vreg, bundles[B].from, at),
                      Bundle(bundles[B].vreg, at, bundles[B].to)>>
          /\ allocation_queue' =
                after_pop(allocation_queue, i) \o <<Len(bundles) + 1, Len(bundles) + 2>>
    /\ done_steps' = done_steps \cup {"split"}
    /\ UNCHANGED <<use_weight, commitments, spilled_bundles, setvars, runvars, movevars>>

\* step 6, B minimal: B is marked spilled
Spill ==
    /\ allocation_queue # <<>>
    /\ LET i == pop_index(allocation_queue)
           B == allocation_queue[i]
       IN /\ ~has_free_preg(B)
          /\ ~has_evictable_preg(B)
          /\ range_len(bundles[B]) = 1
          /\ spilled_bundles' = Append(spilled_bundles, B)
          /\ allocation_queue' = after_pop(allocation_queue, i)
    /\ done_steps' = done_steps \cup {"spill"}
    /\ UNCHANGED <<use_weight, bundles, commitments, setvars, runvars, movevars>>

\* every bundle has been queued by queue_bundles; nothing is committed
InitAlloc ==
    /\ IntSetIdle
    /\ RunIdle
    /\ MovesIdle
    /\ use_weight \in [Points -> UseWeights]
    /\ \E r \in [1..NBundles -> Ranges] :
          bundles = [i \in 1..NBundles |-> Bundle(i, r[i][1], r[i][2])]
    /\ allocation_queue = [i \in 1..NBundles |-> i]
    /\ commitments = [p \in PRegs |-> {}]
    /\ spilled_bundles = <<>>
    /\ done_steps = {}

NextAlloc ==
    \/ Commit
    \/ Evict
    \/ Split
    \/ Spill

SpecAlloc == InitAlloc /\ [][NextAlloc]_vars

\* process_bundles runs its loop until the queue is empty
SpecAllocFair == SpecAlloc /\ WF_vars(NextAlloc)

-----------------------------------------------------------------------------
(* resolve_inserted_moves: the moves inserted at one program point form a  *)
(* group that takes effect in parallel.  The group is put in an order in   *)
(* which no move overwrites a location that a later move still reads; a    *)
(* cycle is broken through the scratch spillslot of its register class.    *)

\* locations of the integer class that the moves of a group may name
NLocs == 4

\* Env::new makes extra_spillslot with one entry per register class
NumRegClasses == 2

IntLocs == 1..NLocs

FloatLocs == {NLocs + 1, NLocs + 2}

Locs == IntLocs \cup FloatLocs

\* the register class of a location
class_of(l) == IF l \in IntLocs THEN 1 ELSE 2

\* the location of spillslot k; no move of a group names it
stack(k) == 0 - k

\* spillslots that allocate_spillslots may have handed out before
SpillslotsBefore == {0, 1}

\* a group of the integer class: srcs[d] is the source of the move into d,
\* or 0 when no move writes d, so that destinations are pairwise distinct
IntGroup(srcs) == {<<srcs[d], d>> : d \in {l \in IntLocs : srcs[l] # 0}}

\* the groups of the float class: nothing, or its two locations swapped
FloatGroups == {{}, {<<NLocs + 1, NLocs + 2>>, <<NLocs + 2, NLocs + 1>>}}

\* a move whose source is its destination
redundant(m) == m[1] = m[2]

\* the dependency is read the wrong way round: a move waits for the write
\* of its source
ready_write_first(m, ms) == \A n \in ms \ {m} : n[2] # m[1]

\* m can be emitted: no other move of ms still reads what m overwrites
ready(m, ms) == \A n \in ms \ {m} : n[1] # m[2]

\* edits are emitted in one fixed order: lowest destination first
first_of(ms) == CHOOSE m \in ms : \A n \in ms : m[2] <= n[2]

\* the moves of ms reading from `from` read from `to` instead
redirect(ms, from, to) == {<<IF m[1] = from THEN to ELSE m[1], m[2]>> : m \in ms}

\* the redundant_moves pass drops a move of a location to itself
DropRedundant ==
    /\ \E m \in pending : redundant(m)
    /\ pending' = pending \ {first_of({m \in pending : redundant(m)})}
    /\ UNCHANGED <<group, emitted, extra_spillslot, num_spillslots,
                   setvars, runvars, allocvars>>

\* the acyclic part: emit a move that clobbers no pending source
EmitReady ==
    /\ ~ \E m \in pending : redundant(m)
    /\ \E m \in pending : ready(m, pending)
    /\ LET m == first_of({n \in pending : ready(n, pending)})
       IN  /\ emitted' = Append(emitted, m)
           /\ pending' = pending \ {m}
    /\ UNCHANGED <<group, extra_spillslot, num_spillslots,
                   setvars, runvars, allocvars>>

\* only cycles are left: save the source of one move in the scratch
\* spillslot of its class, allocated on first use, and read it from there
BreakCycle ==
    /\ pending # {}
    /\ ~ \E m \in pending : redundant(m)
    /\ ~ \E m \in pending : ready(m, pending)
    /\ LET m     == first_of(pending)
           c     == class_of(m[1])
           fresh == extra_spillslot[c] = 0
           slot  == IF fresh THEN num_spillslots + 1 ELSE extra_spillslot[c]
       IN  /\ num_spillslots' = IF fresh THEN slot ELSE num_spillslots
           /\ extra_spillslot' = [extra_spillslot EXCEPT ![c] = slot]
           /\ emitted' = Append(emitted, <<m[1], stack(slot)>>)
           /\ pending' = redirect(pending, m[1], stack(slot))
    /\ UNCHANGED <<group, setvars, runvars, allocvars>>

InitMoves ==
    /\ IntSetIdle
    /\ RunIdle
    /\ AllocIdle
    /\ \E srcs \in [IntLocs -> IntLocs \cup {0}], fg \in FloatGroups :
           group = IntGroup(srcs) \cup fg
    /\ pending = group
    /\ emitted = <<>>
    /\ extra_spillslot = [c \in 1..NumRegClasses |-> 0]
    /\ num_spillslots \in SpillslotsBefore

NextMoves ==
    \/ DropRedundant
    \/ EmitReady
    \/ BreakCycle

SpecMoves == InitMoves /\ [][NextMoves]_vars

-----------------------------------------------------------------------------
(* Claims about IntSet                                                     *)

\* the element set of an IntSet: the values iter() yields
Elems(self) == Range(iter(self))

\* C1: after every action each IntSet holds exactly the elements of its
\* naive oracle set, and the boolean the IntSet returned (contains, merge)
\* is the one the oracle gives.
C1_AgreesWithOracle ==
    /\ Elems(left) = left_oracle
    /\ Elems(right) = right_oracle
    /\ x = y

\* C1 witness: a contains that re-sorted a long Unsorted list and answered
\* TRUE, with the elements still those of the oracle.
C1_Witness ==
    /\ last_action.op = "LeftContains"
    /\ pre.left.mode = "Unsorted"
    /\ Len(pre.left.list) >= SORT_THRESHOLD
    /\ left.mode = "Sorted"
    /\ y
    /\ Elems(left) = left_oracle

\* the (self, other) pair a merge action worked on, before and after
MergeSelfBefore == IF last_action.op = "MergeLeftToRight" THEN pre.right ELSE pre.left
MergeOtherBefore == IF last_action.op = "MergeLeftToRight" THEN pre.left ELSE pre.right
MergeSelfAfter == IF last_action.op = "MergeLeftToRight" THEN right ELSE left
IsMerge == last_action.op \in {"MergeLeftToRight", "MergeRightToLeft"}

\* C6: a.merge(b) leaves a holding the union of the two previous element
\* sets and returns TRUE iff some element of b was not in a before.
C6_MergeIsUnion ==
    IsMerge =>
        /\ Elems(MergeSelfAfter) = Elems(MergeSelfBefore) \cup Elems(MergeOtherBefore)
        /\ y = (Elems(MergeOtherBefore) \ Elems(MergeSelfBefore) # {})

\* C6 witness: a merge that added something, into an Unsorted list that held
\* a value below 512 and a duplicate, from a non-empty dense other.
C6_Witness ==
    /\ IsMerge
    /\ y
    /\ MergeSelfBefore.mode = "Unsorted"
    /\ ~NoDup(MergeSelfBefore.list)
    /\ \E i \in 1..Len(MergeSelfBefore.list) : MergeSelfBefore.list[i] < SPARSE_THRESHOLD
    /\ MergeOtherBefore.mode = "Small"
    /\ MergeOtherBefore.bv # {}

\* C7 as claimed: iter() never yields a value twice, in any mode.
C7_IterNeverRepeats == NoDup(iter(left)) /\ NoDup(iter(right))

\* C7 amended: iter() yields every element of the set at least once, and
\* exactly once when the set is Empty, Small or Sorted; only an Unsorted
\* list may yield a value more than once.
C7_IterRepeatsOnlyUnsorted ==
    /\ left_oracle \subseteq Range(iter(left))
    /\ right_oracle \subseteq Range(iter(right))
    /\ left.mode # "Unsorted" => NoDup(iter(left))
    /\ right.mode # "Unsorted" => NoDup(iter(right))

\* C7 witness: an Unsorted list with duplicates was sorted by a merge and
\* is now a non-empty Sorted list.
C7_Witness ==
    /\ IsMerge
    /\ MergeSelfBefore.mode = "Unsorted"
    /\ ~NoDup(MergeSelfBefore.list)
    /\ MergeSelfAfter.mode = "Sorted"
    /\ MergeSelfAfter.list # <<>>

MergeOtherAfter == IF last_action.op = "MergeLeftToRight" THEN left ELSE right

\* C13: merge is idempotent: an a.merge(b) that immediately repeats an
\* a.merge(b) returns false and leaves a's element set as it was.
C13_MergeIdempotent ==
    (IsMerge /\ repeated) =>
        /\ ~y
        /\ Elems(MergeSelfAfter) = Elems(MergeSelfBefore)

\* C13 witness: the repeated merge follows one that took elements of a
\* non-empty other into a non-empty self; the repeat returned false.
C13_Witness ==
    /\ IsMerge
    /\ repeated
    /\ ~y
    /\ Elems(MergeOtherBefore) # {}
    /\ Elems(MergeSelfBefore) \ Elems(MergeOtherBefore) # {}
    /\ MergeSelfBefore.mode = "Sorted"
    /\ MergeOtherBefore.mode = "Sorted"

\* C15: a.merge(b) leaves b's element set as it was; of b's representation
\* only the mode may change, from Unsorted to Sorted.
C15_MergeKeepsOther ==
    IsMerge =>
        /\ Elems(MergeOtherAfter) = Elems(MergeOtherBefore)
        /\ \/ MergeOtherAfter = MergeOtherBefore
           \/ MergeOtherBefore.mode = "Unsorted" /\ MergeOtherAfter.mode = "Sorted"

\* C15 witness: a merge whose other was an Unsorted list with a duplicate
\* and is now Sorted, self having gained elements from it.
C15_Witness ==
    /\ IsMerge
    /\ y
    /\ MergeOtherBefore.mode = "Unsorted"
    /\ ~NoDup(MergeOtherBefore.list)
    /\ MergeOtherAfter.mode = "Sorted"
    /\ Elems(MergeOtherAfter) = Elems(MergeOtherBefore)

IsAdd == last_action.op \in {"AddLeft", "AddRight"}
IsContains == last_action.op \in {"LeftContains", "RightContains"}
OnLeft == last_action.op \in {"AddLeft", "LeftContains"}
TargetBefore == IF OnLeft THEN pre.left ELSE pre.right
TargetAfter == IF OnLeft THEN left ELSE right

\* C16: add of an index >= SPARSE_THRESHOLD to a Small set makes it a list
\* holding exactly the previous elements and the new index, each once; add
\* of an index below SPARSE_THRESHOLD to a Small set leaves it Small, with
\* the bit set.
C16_AddPromotesSmall ==
    (IsAdd /\ TargetBefore.mode = "Small") =>
        IF last_action.val >= SPARSE_THRESHOLD
        THEN /\ TargetAfter.mode = "Unsorted"
             /\ Range(TargetAfter.list) = TargetBefore.bv \cup {last_action.val}
             /\ Len(TargetAfter.list) = Cardinality(TargetBefore.bv) + 1
        ELSE /\ TargetAfter.mode = "Small"
             /\ TargetAfter.bv = TargetBefore.bv \cup {last_action.val}

\* C16 witness: a Small set of two elements was promoted by an add of a
\* value >= SPARSE_THRESHOLD.
C16_Witness ==
    /\ IsAdd
    /\ TargetBefore.mode = "Small"
    /\ Cardinality(TargetBefore.bv) = 2
    /\ last_action.val >= SPARSE_THRESHOLD
    /\ TargetAfter.mode = "Unsorted"
    /\ Len(TargetAfter.list) = 3

C17_WitnessShort ==
    /\ IsContains
    /\ TargetBefore.mode = "Unsorted"
    /\ Len(TargetBefore.list) = SORT_THRESHOLD - 1
    /\ TargetAfter = TargetBefore

\* C18: whenever an IntSet is in Sorted mode its list is strictly
\* increasing (sorted, no duplicates).
C18_SortedIsStrictlyIncreasing ==
    /\ left.mode = "Sorted" => StrictlyIncreasing(left.list)
    /\ right.mode = "Sorted" => StrictlyIncreasing(right.list)

\* C18 witness: a merge of two Sorted lists that took an element from other
\* left a Sorted list of at least two entries.
C18_Witness ==
    /\ IsMerge
    /\ y
    /\ MergeSelfBefore.mode = "Sorted"
    /\ MergeSelfBefore.list # <<>>
    /\ MergeOtherBefore.mode = "Sorted"
    /\ MergeSelfAfter.mode = "Sorted"
    /\ Len(MergeSelfAfter.list) >= 2

ListModes == {"Unsorted", "Sorted"}

\* one set over the last action: if it was in list mode before and is not
\* now, the action was the clear of that set and the set is Empty; and a
\* Small set holds no index >= SPARSE_THRESHOLD
OneDirectional(before, after, clear_op) ==
    /\ (before.mode \in ListModes /\ after.mode \notin ListModes) =>
            (last_action.op = clear_op /\ after.mode = "Empty")
    /\ last_action.op = clear_op => after.mode = "Empty"
    /\ after.mode = "Small" => \A e \in after.bv : e < SPARSE_THRESHOLD

\* C23: a set in list mode (Unsorted or Sorted) is never returned to Small
\* or Empty by add, remove, contains, sort or merge; only clear does, to
\* Empty; and a Small set never holds an index >= SPARSE_THRESHOLD.
C23_ModeOneDirectional ==
    /\ OneDirectional(pre.left, left, "ClearLeft")
    /\ OneDirectional(pre.right, right, "ClearRight")

\* C23 witness: a remove took the last element of a list and the set is
\* still in list mode, its list empty.
C23_Witness ==
    /\ last_action.op = "RemoveLeft"
    /\ y
    /\ pre.left.mode \in ListModes
    /\ left.mode \in ListModes
    /\ left.list = <<>>

\* C23 witness of the clear: a set in list mode was cleared to Empty.
C23_WitnessClear ==
    /\ last_action.op = "ClearRight"
    /\ pre.right.mode = "Unsorted"
    /\ right.mode = "Empty"

-----------------------------------------------------------------------------
(* Claims about CFGInfo::new and run                                       *)

\* the predecessor count the checks use: the entry block has one more
NumPreds(b) == Len(func.block_preds[b]) + (IF b = func.entry_block THEN 1 ELSE 0)

\* the critical edges <<p, b>> of func
CritEdges ==
    {e \in Blocks \X Blocks :
        /\ NumPreds(e[2]) > 1
        /\ \E i \in 1..Len(func.block_preds[e[2]]) : func.block_preds[e[2]][i] = e[1]
        /\ Len(func.block_succs[e[1]]) > 1}

\* the blocks a critical edge enters
CritBlocks == {e[2] : e \in CritEdges}

\* the blocks with a multi-predecessor successor whose branch has arguments
\* before its blockparam arguments
ArgBlocks ==
    {b \in Blocks :
        /\ \E k \in 1..Len(func.block_succs[b]) : NumPreds(func.block_succs[b][k]) > 1
        /\ func.branch_blockparam_arg_offset[b] > 0}

CFGReturned == cfginfo_result.tag # "None"

\* the first critical edge: lowest target block, then first in its pred list
FirstCritEdge ==
    LET b == SetMin(CritBlocks)
        i == SetMin({j \in 1..Len(func.block_preds[b]) :
                        <<func.block_preds[b][j], b>> \in CritEdges})
    IN <<func.block_preds[b][i], b>>

\* C2 as claimed: a function with a critical edge gets Err(CritEdge(p, b))
\* for one of its critical edges <<p, b>>.
C2_CritEdgeReturned ==
    (CFGReturned /\ CritEdges # {}) =>
        /\ cfginfo_result.tag = "CritEdge"
        /\ cfginfo_result.args \in CritEdges

\* C2 amended: a function with a critical edge is never accepted, by
\* CFGInfo::new or by run; the error is CritEdge of the first critical edge
\* (lowest target block, first such pred) unless a block before that target
\* has a disallowed branch argument, which is then returned instead.
C2_CritEdgeRejected ==
    (CFGReturned /\ CritEdges # {}) =>
        /\ cfginfo_result.tag \in {"CritEdge", "DisallowedBranchArg"}
        /\ result = cfginfo_result
        /\ IF \E a \in ArgBlocks : a < SetMin(CritBlocks)
           THEN cfginfo_result = DisallowedBranchArg(func.block_insns[SetMin(ArgBlocks)].last)
           ELSE cfginfo_result = CritEdge(FirstCritEdge[1], FirstCritEdge[2])

\* C2 witness: the critical edge into a block after the entry is returned.
C2_Witness ==
    /\ CritEdges # {}
    /\ cfginfo_result.tag = "CritEdge"
    /\ cfginfo_result.args[2] > 0
    /\ result = cfginfo_result
    /\ pc = "done"

\* C3 as claimed: a function with a block whose branch carries arguments
\* toward a multi-predecessor successor gets Err(DisallowedBranchArg(last))
\* of such a block, and an accepted function has no such block.
C3_BranchArgReturned ==
    /\ (CFGReturned /\ ArgBlocks # {}) =>
            /\ cfginfo_result.tag = "DisallowedBranchArg"
            /\ \E b \in ArgBlocks : cfginfo_result.args = <<func.block_insns[b].last>>
    /\ cfginfo_result.tag = "Ok" => ArgBlocks = {}

\* C3 amended: such a function is never accepted; the error is
\* DisallowedBranchArg(last) of the first such block unless that block or an
\* earlier one is the target of a critical edge, which is then returned;
\* an accepted function has no such block.
C3_BranchArgRejected ==
    /\ (CFGReturned /\ ArgBlocks # {}) =>
            /\ cfginfo_result.tag \in {"CritEdge", "DisallowedBranchArg"}
            /\ IF \E c \in CritBlocks : c <= SetMin(ArgBlocks)
               THEN cfginfo_result.tag = "CritEdge"
               ELSE cfginfo_result = DisallowedBranchArg(func.block_insns[SetMin(ArgBlocks)].last)
    /\ cfginfo_result.tag = "Ok" => ArgBlocks = {}

\* C3 witness: DisallowedBranchArg is returned for a block after the entry.
C3_Witness ==
    /\ ArgBlocks # {}
    /\ cfginfo_result.tag = "DisallowedBranchArg"
    /\ cfginfo_result.args[1] > 1
    /\ pc = "done"

IntakeErrorTags == {"CritEdge", "DisallowedBranchArg", "SSA", "BB", "Branch", "EntryLivein"}
InitStages ==
    {"create_pregs_and_vregs", "compute_liveness", "merge_vreg_bundles", "queue_bundles"}

StageOrder ==
    <<"CFGInfo_new",
      "create_pregs_and_vregs", "compute_liveness", "merge_vreg_bundles", "queue_bundles",
      "process_bundles", "try_allocating_regs_for_spilled_bundles", "allocate_spillslots",
      "apply_allocations_and_insert_moves", "resolve_inserted_moves", "compute_stackmaps">>

\* C5: the stages executed so far are an initial part of the one stage
\* order, each once; a stage after compute_liveness or process_bundles has
\* run only if no error was returned; an Output is returned only after all.
C5_StagesInOrder ==
    /\ Len(trace) <= Len(StageOrder)
    /\ \A i \in 1..Len(trace) : trace[i] = StageOrder[i]
    /\ Len(trace) > 3 => result.tag \in {"None", "Ok", "TooManyLiveRegs"}
    /\ Len(trace) > 6 => result.tag \in {"None", "Ok"}
    /\ Len(trace) > 1 => (env_built /\ cfginfo_result.tag = "Ok")
    /\ result.tag = "Ok" => trace = StageOrder

\* C5 witness: an allocation that ran every stage and returned its Output.
C5_Witness ==
    /\ pc = "done"
    /\ result.tag = "Ok"
    /\ trace = StageOrder

\* C8 as claimed: a function in which some block has the entry block as a
\* successor is never accepted.
C8_EntryPredRejected ==
    (CFGReturned /\ Len(func.block_preds[func.entry_block]) > 0) =>
        cfginfo_result.tag # "Ok"

\* C8 amended: the entry block may have predecessors; with its virtual
\* predecessor it then counts as a multi-predecessor block, so a function
\* is accepted only if every predecessor of the entry block has the entry
\* block as its only successor and a branch without extra arguments.
C8_EntryPredsAreSplit ==
    (cfginfo_result.tag = "Ok") =>
        \A i \in 1..Len(func.block_preds[func.entry_block]) :
            LET p == func.block_preds[func.entry_block][i]
            IN /\ func.block_succs[p] = <<func.entry_block>>
               /\ func.branch_blockparam_arg_offset[p] = 0

\* C8 witness: an accepted function whose entry block has two predecessors.
C8_Witness ==
    /\ cfginfo_result.tag = "Ok"
    /\ Len(func.block_preds[func.entry_block]) = 2

\* the instructions with a Def operand of vreg v, and the block parameters
\* <<block, position>> that are vreg v
InstDefs(v) ==
    {j \in Insts :
        \E k \in 1..Len(func.inst_operands[j]) : func.inst_operands[j][k] = Operand(v, "Def")}
ParamDefs(v) ==
    UNION {{<<b, i>> : i \in {j \in 1..Len(func.block_params[b]) : func.block_params[b][j] = v}} :
             b \in Blocks}

\* C9: whenever CFGInfo::new returns Ok, every vreg has exactly one valid
\* entry among vreg_def_inst and vreg_def_blockparam, and that entry is the
\* only definition of the vreg in the function.
C9_OneDefPerVreg ==
    (cfginfo_result.tag = "Ok") =>
        \A v \in VRegs :
            /\ (cfg.vreg_def_inst[v] # Inst_invalid)
                    # (cfg.vreg_def_blockparam[v][1] # Block_invalid)
            /\ Cardinality(InstDefs(v)) + Cardinality(ParamDefs(v)) = 1
            /\ cfg.vreg_def_inst[v] # Inst_invalid => cfg.vreg_def_inst[v] \in InstDefs(v)
            /\ cfg.vreg_def_blockparam[v][1] # Block_invalid =>
                    <<cfg.vreg_def_blockparam[v][1], cfg.vreg_def_blockparam[v][2] + 1>>
                        \in ParamDefs(v)

\* the CFG edges <<p, s>> of func
Edges == {e \in Blocks \X Blocks : \E k \in 1..Len(func.block_succs[e[1]]) :
                                        func.block_succs[e[1]][k] = e[2]}

\* the index (from 0) of block p in the predecessor list of block s
PredIndex(s, p) ==
    (CHOOSE i \in 1..Len(func.block_preds[s]) : func.block_preds[s][i] = p) - 1

\* C19: for every function CFGInfo::new accepts and every edge p -> s,
\* pred_position(p) is the index of p in block_preds(s), whichever successor
\* s of p is taken.
C19_PredPositionIsIndex ==
    (cfginfo_result.tag = "Ok") =>
        \A e \in Edges : pred_position(cfg, e[1]) = PredIndex(e[2], e[1])

\* C19 witness: an accepted function with a block of two predecessors, the
\* second of which has position 1.
C19_Witness ==
    /\ cfginfo_result.tag = "Ok"
    /\ \E e \in Edges :
          /\ Len(func.block_preds[e[2]]) = 2
          /\ func.block_preds[e[2]][2] = e[1]
          /\ pred_position(cfg, e[1]) = 1

\* the blocks deeper than the block before them, in increasing order
DeeperBlocks ==
    Ascending({b \in Blocks \ {0} : cfg.approx_loop_depth[b + 1] > cfg.approx_loop_depth[b]})

\* C20: loop_transition_points is the list, in increasing block order, of
\* block_entry[b] for the blocks b > 0 whose approx_loop_depth is greater
\* than that of block b - 1; block 0 is never recorded.
C20_TransitionPoints ==
    (cfginfo_result.tag = "Ok") =>
        cfg.loop_transition_points =
            [i \in 1..Len(DeeperBlocks) |-> cfg.block_entry[DeeperBlocks[i]]]

\* C20 witness: one transition point, the entry of a loop header after the
\* entry block.
C20_Witness ==
    /\ cfginfo_result.tag = "Ok"
    /\ cfg.approx_loop_depth[1] = 0
    /\ \E b \in Blocks \ {0} :
          /\ cfg.approx_loop_depth[b + 1] = 1
          /\ cfg.loop_transition_points = <<ProgPoint_before(func.block_insns[b].first)>>

\* C20 witness of the entry-block case: block 0 is a loop header of depth 1
\* and nothing is recorded.
C20_WitnessEntryHeader ==
    /\ cfginfo_result.tag = "Ok"
    /\ cfg.approx_loop_depth[1] = 1
    /\ cfg.loop_transition_points = <<>>

\* the successors of each block, as sets
SuccSet == [b \in Blocks |-> {e[2] : e \in {d \in Edges : d[1] = b}}]

\* d dominates b: every path from the entry block to b goes through d
Dominates(d, b) ==
    \/ d = b
    \/ b \notin ReachableFrom([n \in Blocks |-> IF n = d THEN {} ELSE SuccSet[n]],
                              {func.entry_block} \ {d})

\* depth-first search from the entry block, taking the successors of a block
\* from the highest index to the lowest; st is [visited, post]
RECURSIVE dfs(_, _)
RECURSIVE dfs_children(_, _)
dfs(b, st) ==
    IF b \in st.visited THEN st
    ELSE LET down == dfs_children(Ascending(SuccSet[b]),
                                  [st EXCEPT !.visited = @ \cup {b}])
         IN [down EXCEPT !.post = Append(@, b)]

dfs_children(list, st) ==
    IF list = <<>> THEN st
    ELSE dfs_children(SubSeq(list, 1, Len(list) - 1), dfs(list[Len(list)], st))

Postorder == dfs(func.entry_block, [visited |-> {}, post |-> <<>>]).post

\* the block indices are a reverse postorder of func: the last block
\* finished has index 0, the one before it index 1, ...
InRPO ==
    /\ Len(Postorder) = func.blocks
    /\ \A i \in 1..Len(Postorder) : Postorder[i] = func.blocks - i

\* every edge to a block of lower or equal index is a back-edge of a loop:
\* its target dominates its source
Reducible == \A e \in Edges : e[2] <= e[1] => Dominates(e[2], e[1])

\* the headers: the targets of back-edges
Headers == {e[2] : e \in {d \in Edges : d[2] <= d[1]}}

\* the body of the loop of header h: h, and the blocks from which a source
\* of a back-edge to h is reached without going through h
LoopBody(h) ==
    ReachableFrom([n \in Blocks |-> IF n = h THEN {} ELSE {p \in Blocks : n \in SuccSet[p]}],
                  {h} \cup {e[1] : e \in {d \in Edges : d[2] = h /\ h <= d[1]}})

LoopNest(b) == Cardinality({h \in Headers : b \in LoopBody(h)})

\* C14: when the CFG is reducible and its blocks are numbered in reverse
\* postorder, approx_loop_depth[b] is, for every block b, the number of
\* loops that enclose b.
C14_LoopDepthPrecise ==
    (cfginfo_result.tag = "Ok" /\ Reducible /\ InRPO) =>
        \A b \in Blocks : cfg.approx_loop_depth[b + 1] = LoopNest(b)

\* approx_loop_depth[b] is never below the number of loops that enclose b
C14_LoopDepthAtLeast ==
    (cfginfo_result.tag = "Ok" /\ Reducible /\ InRPO) =>
        \A b \in Blocks : cfg.approx_loop_depth[b + 1] >= LoopNest(b)

\* the loop-depth pass is running, or has run
InDepthPass == pc \in {"cfg_depth", "cfg_depth_while"}
DepthPassDone == pc = "cfg_transitions" \/ cfginfo_result.tag = "Ok"

\* C24: during the loop-depth pass cur_depth is the length of
\* backedge_stack and is never below 0, every entry on the stack is > 0, no
\* count of outstanding back-edges goes below 0, the inner while loop of a
\* block ends with backedge_out[block] = 0, and after the last block the
\* stack is empty and cur_depth is 0.
C24_DepthPassInvariants ==
    /\ (InDepthPass \/ DepthPassDone) =>
            /\ cfg.cur_depth = Len(cfg.backedge_stack)
            /\ cfg.cur_depth >= 0
            /\ \A i \in 1..Len(cfg.backedge_stack) : cfg.backedge_stack[i] > 0
            /\ \A b \in Blocks : cfg.backedge_out[b] >= 0
    /\ (pc = "cfg_depth_while" /\ cfg.backedge_stack = <<>>) => cfg.backedge_out[block] = 0
    /\ (pc = "cfg_depth" /\ block > 0) => cfg.backedge_out[block - 1] = 0
    /\ DepthPassDone =>
            /\ cfg.backedge_stack = <<>>
            /\ cfg.cur_depth = 0
            /\ \A b \in Blocks : cfg.backedge_out[b] = 0

\* C24 witness: in the inner while loop of a block recorded at depth 2, the
\* block's back-edge has popped the top entry and one entry is left on the
\* stack.
C24_Witness ==
    /\ pc = "cfg_depth_while"
    /\ cfg.backedge_out[block] = 0
    /\ \E k \in 1..Len(func.block_succs[block]) : func.block_succs[block][k] <= block
    /\ Len(cfg.backedge_stack) = 1
    /\ cfg.cur_depth = 1
    /\ cfg.approx_loop_depth[block + 1] = 2

\* C24 witness of the end of the pass: a function with a loop, the stack
\* empty and cur_depth 0 after the last block.
C24_WitnessEnd ==
    /\ pc = "cfg_transitions"
    /\ \E b \in Blocks : cfg.backedge_in[b] > 0
    /\ cfg.backedge_stack = <<>>
    /\ cfg.cur_depth = 0

\* the stages run has executed when stage s returned an error: CFGInfo::new
\* and the stages of Env::init and Env::run up to s
StagesUpTo(s) ==
    SubSeq(StageOrder, 1, CHOOSE i \in 1..Len(StageOrder) : StageOrder[i] = s)

\* C21: an error of CFGInfo::new, compute_liveness or process_bundles ends
\* the allocation: run returns that error, the stages executed are exactly
\* those up to the failing one, nothing runs once run has returned, and run
\* returns an Output only after every stage has been executed.
C21_ErrorShortCircuits ==
    /\ result.tag # "None" => pc = "done"
    /\ pc = "done" => ~ENABLED NextRun
    /\ (cfginfo_result.tag \notin {"None", "Ok"}) =>
            /\ result = cfginfo_result
            /\ trace = StagesUpTo("CFGInfo_new")
            /\ ~env_built
    /\ result.tag \in LivenessErrors => trace = StagesUpTo("compute_liveness")
    /\ result.tag \in ProcessErrors => trace = StagesUpTo("process_bundles")
    /\ result.tag = "Ok" =>
            /\ cfginfo_result.tag = "Ok"
            /\ trace = StagesUpTo("compute_stackmaps")
    /\ result.tag \in {"None", "Ok", "CritEdge", "DisallowedBranchArg"}
                        \cup LivenessErrors \cup ProcessErrors

\* C21 witness: process_bundles returned an error, run returned it and no
\* stage after process_bundles was executed.
C21_Witness ==
    /\ pc = "done"
    /\ result.tag \in ProcessErrors
    /\ trace[Len(trace)] = "process_bundles"
    /\ Len(trace) = 6

\* C21 witness of the liveness error: run returned it, with neither
\* merge_vreg_bundles nor queue_bundles executed.
C21_WitnessLiveness ==
    /\ pc = "done"
    /\ result.tag \in LivenessErrors
    /\ trace[Len(trace)] = "compute_liveness"

-----------------------------------------------------------------------------
(* Claims about process_bundles                                            *)

\* the program points of a bundle
PointsOf(b) == {pt \in Points : bundles[b].from <= pt /\ pt < bundles[b].to}

\* C11: in every state of the allocation loop the ranges committed to one
\* preg are pairwise non-overlapping: at every program point at most one
\* committed bundle holds the preg.
C11_NoConflict ==
    \A p \in DOMAIN commitments :
        \A a, b \in commitments[p] : a # b => PointsOf(a) \cap PointsOf(b) = {}

\* C11 witness: after commits, an eviction and a split, a preg holds two
\* bundles.
C11_Witness ==
    /\ {"commit", "evict", "split"} \subseteq done_steps
    /\ \E p \in DOMAIN commitments : Cardinality(commitments[p]) >= 2

\* the bundles that hold a location: committed to a preg, or spilled
Committed == UNION {commitments[p] : p \in DOMAIN commitments}
Placed == Committed \cup Range(spilled_bundles)

\* the bundles that exist: queued, committed or spilled (a split bundle is
\* replaced by its fragments)
Live == Range(allocation_queue) \cup Placed

\* every program point of every bundle queued at first is in exactly one
\* bundle of S of its vreg
Covers(S) ==
    \A i \in 1..NBundles : \A pt \in PointsOf(i) :
        Cardinality({b \in S : bundles[b].vreg = i /\ pt \in PointsOf(b)}) = 1

\* the queue is empty and every bundle queued at first is, whole or in
\* fragments, committed to a preg or marked spilled
AllocDone ==
    /\ bundles # <<>>
    /\ allocation_queue = <<>>
    /\ Covers(Placed)

\* the live bundles are non-empty and partition the bundles queued at first,
\* so there are never more of them than program points in those
LivePartition ==
    /\ Covers(Live)
    /\ \A b \in Live : bundles[b].from < bundles[b].to

\* the queue after the step is below the queue before it in the multiset
\* order by weight: it differs, and every bundle it gained is lighter than
\* some bundle it lost
QueueLess ==
    /\ Range(allocation_queue') # Range(allocation_queue)
    /\ \A gained \in Range(allocation_queue') \ Range(allocation_queue) :
          \E lost \in Range(allocation_queue) \ Range(allocation_queue') :
              weight_less(bundles[gained], bundles[lost])

\* a step either splits, which adds one to the live bundles, or leaves the
\* bundles as they are and lowers the queue
Decreases ==
    \/ Cardinality(Live') > Cardinality(Live)
    \/ Live' = Live /\ bundles' = bundles /\ QueueLess

\* C12: the loop terminates: every run of pop / commit / evict / split /
\* spill steps is finite (a step is possible while the queue is non-empty;
\* each step lowers a well-founded measure: it adds a live bundle, of which
\* there is a bounded number, or lowers the queue in the multiset order by
\* weight) and ends with an empty queue, every bundle committed to a preg or
\* marked spilled.
C12_Terminates ==
    /\ [](allocation_queue # <<>> => ENABLED NextAlloc)
    /\ [](LivePartition /\ (allocation_queue = <<>> => AllocDone))
    /\ [][Decreases]_allocvars

\* C12 as a liveness property, of the loop run until the queue is empty
\* (SpecAllocFair)
C12_EventuallyDone == <>AllocDone

\* C12 witness: the queue is empty after steps of all four kinds.
C12_Witness ==
    /\ AllocDone
    /\ done_steps = {"commit", "evict", "split", "spill"}

-----------------------------------------------------------------------------
(* Claims about resolve_inserted_moves                                     *)

\* the value that location l holds once the moves es have been executed one
\* after another, every location starting out holding its own name
RECURSIVE ValueAfter(_, _)
ValueAfter(l, es) ==
    IF es = <<>> THEN l
    ELSE LET e    == es[Len(es)]
             rest == SubSeq(es, 1, Len(es) - 1)
         IN  IF e[2] = l THEN ValueAfter(e[1], rest) ELSE ValueAfter(l, rest)

\* the emitted moves that save a value of class c in a spillslot
Saves(c) == {i \in 1..Len(emitted) : emitted[i][2] < 0 /\ class_of(emitted[i][1]) = c}

\* the scratch locations that the emitted moves use for class c
ScratchOf(c) == {emitted[i][2] : i \in Saves(c)}

C22_WitnessAcyclic ==
    /\ pending = {}
    /\ Len(emitted) = NLocs - 1
    /\ Saves(1) = {}
    /\ \E i \in 1..(Len(emitted) - 1) : emitted[i][2] > emitted[i + 1][2]

====
